---- MODULE Spec2Model ----
(***************************************************************************)
(* Left-leaning red-black symbol table of                                  *)
(* src/data-structures/tree/red-black-tree: RedBlackNode.js and            *)
(* RedBlackTree.js.                                                        *)
(*                                                                         *)
(* The nodes live in a heap (a sequence of node records, a reference is an *)
(* index, NULL is the null reference), because the code mutates nodes in   *)
(* place and an exception leaves every mutation made so far in the heap.   *)
(* After each call the nodes no root reaches are dropped and the others    *)
(* renumbered in pre-order (Canon), so that a state is the object graph    *)
(* and not an allocation history.                                          *)
(***************************************************************************)
EXTENDS Integers, Sequences, FiniteSets, TLC

VARIABLES heap, numberRoot, stringRoot, invertedIndex, last, lastWrite, nops

vars == <<heap, numberRoot, stringRoot, invertedIndex, last, lastWrite, nops>>

(***************************************************************************)
(* Bounds of the model.                                                    *)
(***************************************************************************)
MaxOps == 5             \* calls of a run
MaxPuts == 4            \* calls of a run that only puts and reads
MaxHeightPuts == 9      \* keys of a run that builds one tree

(***************************************************************************)
(* Program constants.                                                      *)
(***************************************************************************)
RED == TRUE
BLACK == FALSE
STRING_ENCODING_LENGTH == 8
STRING_SEGMENT == 58
NULL == 0
\* The property name of invertedIndex that the value undefined selects
\* (obj[undefined] is obj["undefined"]); no numeric value selects it.
UNDEFINED == -1
\* The result of compareTo when it throws.
THROWN == 2

(***************************************************************************)
(* Keys.  typeof key is "number" or "string"; a string is the sequence of  *)
(* its char codes.  The third type is the one of a missing key property    *)
(* (the key of a function object, of a probe without key).                 *)
(***************************************************************************)
NumKey(n) == [t |-> "number", n |-> n, s |-> <<>>]
StrKey(s) == [t |-> "string", n |-> 0, s |-> s]
NoKey == [t |-> "undefined", n |-> 0, s |-> <<>>]
\* The key insert hands to put: the object { value: val }.
ObjKey == [t |-> "object", n |-> 0, s |-> <<>>]

NumKeys == {NumKey(n) : n \in {-1, 0, 1, 2}}
\* "a", "b", "abc", "acb"
StrKeys == {StrKey(<<97>>), StrKey(<<98>>), StrKey(<<97, 98, 99>>), StrKey(<<97, 99, 98>>)}
Keys == NumKeys \cup StrKeys
\* "aaaaaaaaa": one character more than STRING_ENCODING_LENGTH
LongKey == StrKey(<<97, 97, 97, 97, 97, 97, 97, 97, 97>>)
Values == {0, 1}

\* JavaScript truthiness of a key and of a value: 0 and "" are falsy.
TruthyKey(k) == IF k.t = "number" THEN k.n # 0 ELSE IF k.t = "string" THEN Len(k.s) > 0 ELSE FALSE
TruthyValue(v) == v # 0

(***************************************************************************)
(* RedBlackNode.js                                                         *)
(***************************************************************************)
RECURSIVE SumCodes(_, _)
SumCodes(s, i) == IF i > Len(s) THEN 0 ELSE (s[i] - 64) + SumCodes(s, i + 1)

\* decodeStrKey without the weight of the first character.
decodeStrKey_unweighted(s) == <<0, SumCodes(s, 1)>>

\* decodeStrKey: k = (code(s[0]) - 64) * 58^8 + sum of (code - 64) over the
\* rest.  58^8 is beyond TLC's integers, so the number is kept as the pair
\* <<hi, lo>> standing for hi * 58^8 + lo; |lo| <= 7 * 65471 < 58^8, so the
\* order of the numbers is the lexicographic order of the pairs.
decodeStrKey(s) == <<s[1] - 64, IF Len(s) > 1 THEN SumCodes(s, 2) ELSE 0>>

SurrogateLess(k1, k2) == k1[1] < k2[1] \/ (k1[1] = k2[1] /\ k1[2] < k2[2])

\* this.compareTo(node), on the two keys: 1, -1, 0, or THROWN.
compareTo(thisKey, nodeKey) ==
  IF thisKey.t = "number" /\ nodeKey.t = "number"
  THEN IF thisKey.n > nodeKey.n THEN 1 ELSE IF thisKey.n < nodeKey.n THEN -1 ELSE 0
  ELSE IF thisKey.t = "string" /\ nodeKey.t = "string"
  THEN LET key1 == decodeStrKey(thisKey.s)
           key2 == decodeStrKey(nodeKey.s)
       IN IF SurrogateLess(key2, key1) THEN 1 ELSE IF SurrogateLess(key1, key2) THEN -1 ELSE 0
  ELSE THROWN

\* new RedBlackNode(key, value, color, size)
Node(key, value, color, size) ==
  [key |-> key, value |-> value, color |-> color, size |-> size, left |-> NULL, right |-> NULL]

(***************************************************************************)
(* Results of the helpers: the heap after the call, the returned reference *)
(* and the error thrown ("none" when the call returns).                    *)
(***************************************************************************)
Ok(H, r) == [H |-> H, ret |-> r, err |-> "none"]
Raise(H, e) == [H |-> H, ret |-> NULL, err |-> e]

isRed(H, node) == IF node = NULL THEN FALSE ELSE H[node].color = RED

sizeAt(H, node) == IF node = NULL THEN 0 ELSE H[node].size

\* rotateLeft, with x = node.right: h.right = x.left; x.left = h;
\* x.color = x.left.color; x.left.color = RED; x.size = h.size;
\* h.size = sizeAt(h.left) + sizeAt(h.right) + 1.
rotateLeft(H, node) ==
  LET rotate(h, x) ==
        Ok([H EXCEPT ![h].right = H[x].left,
                     ![x].left = h,
                     ![x].color = H[h].color,
                     ![h].color = RED,
                     ![x].size = H[h].size,
                     ![h].size = sizeAt(H, H[h].left) + sizeAt(H, H[x].left) + 1], x)
  IN IF H[node].right = NULL THEN Raise(H, "TypeError") ELSE rotate(node, H[node].right)

\* rotateRight, with x = node.left: h.left = x.right; x.right = h;
\* x.color = x.right.color; x.right.color = RED; x.size = h.size;
\* h.size = sizeAt(h.left) + sizeAt(h.right) + 1.
rotateRight(H, node) ==
  LET rotate(h, x) ==
        Ok([H EXCEPT ![h].left = H[x].right,
                     ![x].right = h,
                     ![x].color = H[h].color,
                     ![h].color = RED,
                     ![x].size = H[h].size,
                     ![h].size = sizeAt(H, H[x].right) + sizeAt(H, H[h].right) + 1], x)
  IN IF H[node].left = NULL THEN Raise(H, "TypeError") ELSE rotate(node, H[node].left)

\* The three assignments in order; a null child throws after the ones before.
flipColors(H, node) ==
  LET flip(h, l, r) ==
        IF l = NULL THEN Raise([H EXCEPT ![h].color = ~@], "TypeError")
        ELSE IF r = NULL THEN Raise([H EXCEPT ![h].color = ~@, ![l].color = ~@], "TypeError")
        ELSE Ok([H EXCEPT ![h].color = ~@, ![l].color = ~@, ![r].color = ~@], h)
  IN flip(node, H[node].left, H[node].right)

\* The three steps in order; each reads `node`, the argument, and not
\* fixedNode, the root the step before returned.
fixRightLining(H, node) ==
  LET first ==
        IF isRed(H, H[node].right) /\ ~isRed(H, H[node].left)
        THEN rotateLeft(H, node)
        ELSE Ok(H, node)
      second(s) ==
        IF isRed(s.H, s.H[node].left) /\ isRed(s.H, s.H[s.H[node].left].left)
        THEN rotateRight(s.H, node)
        ELSE s
      third(s) ==
        IF isRed(s.H, s.H[node].left) /\ isRed(s.H, s.H[node].right)
        THEN Ok(flipColors(s.H, node).H, s.ret)
        ELSE s
  IN third(second(first))

\* invertedIndex[value] = new Set([key]) or invertedIndex[value].add(key)
IndexAdd(I, value, key) ==
  IF value \in DOMAIN I
  THEN [I EXCEPT ![value] = @ \cup {key}]
  ELSE [v \in DOMAIN I \cup {value} |-> IF v = value THEN {key} ELSE I[v]]

\* Results of the recursions that also write the index.
OkI(H, I, r) == [H |-> H, I |-> I, ret |-> r, err |-> "none"]
RaiseI(H, I, e) == [H |-> H, I |-> I, ret |-> NULL, err |-> e]

\* putRecv: the heap, the index and the returned subtree root.
RECURSIVE putRecv(_, _, _, _)
putRecv(H, I, node, newNode) ==
  LET \* the three branches on cmp, the link to the child assigned
      linkLeft(sub) ==
        IF sub.err # "none" THEN sub ELSE OkI([sub.H EXCEPT ![node].left = sub.ret], sub.I, node)
      linkRight(sub) ==
        IF sub.err # "none" THEN sub ELSE OkI([sub.H EXCEPT ![node].right = sub.ret], sub.I, node)
      branch(cmp) ==
        IF cmp = THROWN THEN RaiseI(H, I, "TypeMismatch")
        ELSE IF cmp < 0 THEN linkLeft(putRecv(H, I, H[node].left, newNode))
        ELSE IF cmp > 0 THEN linkRight(putRecv(H, I, H[node].right, newNode))
        ELSE OkI([H EXCEPT ![node].value = H[newNode].value], I, node)
      \* nextNode.size = ...; the index; return nextNode
      finish(fix, I1) ==
        OkI([fix.H EXCEPT ![fix.ret].size =
               sizeAt(fix.H, fix.H[fix.ret].left) + sizeAt(fix.H, fix.H[fix.ret].right) + 1],
            IndexAdd(I1, H[newNode].value, H[newNode].key), fix.ret)
      fixUp(st) ==
        IF st.err # "none" THEN st ELSE finish(fixRightLining(st.H, node), st.I)
  IN IF node = NULL
     THEN OkI(H, IndexAdd(I, H[newNode].value, H[newNode].key), newNode)
     ELSE fixUp(branch(compareTo(H[newNode].key, H[node].key)))

(***************************************************************************)
(* What a public method gives back: the error thrown ("none" when it       *)
(* returns) and the returned value, by kind:                               *)
(*   "undefined"  no value            "null"     null                      *)
(*   "value"      val                 "keys"     the array of keys         *)
(*   "record"     {key, value: keys}  "bool"     b                         *)
(*   "entries"    seq of <<key, value>>          "list"  seq of keys       *)
(* An array made from a Set is kept as the set of its elements.            *)
(***************************************************************************)
Res0 == [err |-> "none", kind |-> "undefined", val |-> 0, b |-> FALSE, keys |-> {},
         key |-> NoKey, seq |-> <<>>]
Throw(e) == [Res0 EXCEPT !.err = e]
RNull == [Res0 EXCEPT !.kind = "null"]
RValue(v) == [Res0 EXCEPT !.kind = "value", !.val = v]
RKeys(ks) == [Res0 EXCEPT !.kind = "keys", !.keys = ks]
RRecord(k, ks) == [Res0 EXCEPT !.kind = "record", !.key = k, !.keys = ks]
RBool(b) == [Res0 EXCEPT !.kind = "bool", !.b = b]
REntries(q) == [Res0 EXCEPT !.kind = "entries", !.seq = q]
RList(q) == [Res0 EXCEPT !.kind = "list", !.seq = q]
RNode(n) == [Res0 EXCEPT !.kind = "node", !.key = n.key, !.val = n.value]

\* findIter; searchValue is UNDEFINED when searchNode.value is still null.
RECURSIVE findIter(_, _, _, _, _)
findIter(H, I, node, searchKey, searchValue) ==
  LET at(currentNode, cmp) ==
        IF cmp = THROWN THEN Throw("TypeMismatch")
        ELSE IF cmp < 0 THEN findIter(H, I, H[currentNode].left, searchKey, searchValue)
        ELSE IF cmp > 0 THEN findIter(H, I, H[currentNode].right, searchKey, searchValue)
        ELSE IF searchValue = UNDEFINED THEN RValue(H[currentNode].value)
        ELSE IF H[currentNode].value # searchValue THEN RNull
        ELSE IF H[currentNode].value \in DOMAIN I
        THEN RRecord(H[currentNode].key, I[H[currentNode].value])
        ELSE [RRecord(H[currentNode].key, {}) EXCEPT !.kind = "recordNull"]
  IN IF node = NULL THEN RNull ELSE at(node, compareTo(searchKey, H[node].key))

\* find(obj): objKey is NoKey and objValue is UNDEFINED when obj lacks the property.
find(H, I, nRoot, sRoot, objKey, objValue) ==
  LET hasKey == TruthyKey(objKey)
      hasValue == objValue # UNDEFINED /\ TruthyValue(objValue)
      searchValue == IF hasKey /\ hasValue THEN objValue ELSE UNDEFINED
  IN IF ~hasKey /\ hasValue
     THEN IF objValue \in DOMAIN I THEN RKeys(I[objValue]) ELSE RKeys({})
     ELSE IF ~hasKey /\ ~hasValue THEN Throw("Error")
     ELSE IF objKey.t = "number" THEN findIter(H, I, nRoot, objKey, searchValue)
     ELSE IF objKey.t = "string" THEN findIter(H, I, sRoot, objKey, searchValue)
     ELSE RNull

\* The truthiness of what find returned: null, 0 are falsy.
Truthy(r) == IF r.kind = "null" \/ r.kind = "undefined" THEN FALSE
             ELSE IF r.kind = "value" THEN TruthyValue(r.val)
             ELSE IF r.kind = "bool" THEN r.b
             ELSE TRUE

\* constains(k): !!this.find({ key: k }); a throw of find passes through.
constains(H, I, nRoot, sRoot, k) ==
  LET bang(r) == IF r.err # "none" THEN r ELSE RBool(Truthy(r))
  IN bang(find(H, I, nRoot, sRoot, k, UNDEFINED))

isEmpty(nRoot, sRoot) == nRoot = NULL /\ sRoot = NULL

size(H, nRoot, sRoot) ==
  IF isEmpty(nRoot, sRoot) THEN 0
  ELSE IF nRoot = NULL THEN H[sRoot].size
  ELSE IF sRoot = NULL THEN H[nRoot].size
  ELSE H[nRoot].size + H[sRoot].size

RECURSIVE minAt(_, _)
minAt(H, node) == IF H[node].left = NULL THEN node ELSE minAt(H, H[node].left)

RECURSIVE maxAt(_, _)
maxAt(H, node) == IF H[node].right = NULL THEN node ELSE maxAt(H, H[node].right)

\* flipColors(h); if (isRed(h.right.left)) { h.right = rotateRight(h.right);
\* h = rotateLeft(h); flipColors(h); } return h
moveRedLeft(H, node) ==
  LET flipTop(r) == IF r.err # "none" THEN r ELSE Ok(flipColors(r.H, r.ret).H, r.ret)
      rotateTop(r) == flipTop(rotateLeft([r.H EXCEPT ![node].right = r.ret], node))
      afterFlip(f) ==
        IF f.err # "none" THEN f
        ELSE IF isRed(f.H, f.H[f.H[node].right].left)
        THEN rotateTop(rotateRight(f.H, f.H[node].right))
        ELSE Ok(f.H, node)
  IN afterFlip(flipColors(H, node))

\* Defined by the class; removeRecv names it and never calls it.
moveRedRight(H, node) ==
  LET flipTop(r) == IF r.err # "none" THEN r ELSE Ok(flipColors(r.H, r.ret).H, r.ret)
      afterFlip(f) ==
        IF f.err # "none" THEN f
        ELSE IF isRed(f.H, f.H[f.H[node].left].left)
        THEN flipTop(rotateRight(f.H, node))
        ELSE Ok(f.H, node)
  IN afterFlip(flipColors(H, node))

balance(H, node) ==
  LET first == IF isRed(H, H[node].right) THEN rotateLeft(H, node) ELSE Ok(H, node)
      second(s) ==
        IF isRed(s.H, s.H[s.ret].left) /\ isRed(s.H, s.H[s.H[s.ret].left].left)
        THEN rotateRight(s.H, s.ret)
        ELSE s
      third(s) ==
        IF isRed(s.H, s.H[s.ret].left) /\ isRed(s.H, s.H[s.ret].right)
        THEN Ok(flipColors(s.H, s.ret).H, s.ret)
        ELSE s
      resize(s) ==
        Ok([s.H EXCEPT ![s.ret].size = sizeAt(s.H, s.H[s.ret].left) + sizeAt(s.H, s.H[s.ret].right) + 1],
           s.ret)
  IN resize(third(second(first)))

\* The tail of removeRecv: this.invertedIndex[h.val].delete(h.key); return
\* this.balance(h).  No node has a property val (the value is in `value`, and
\* the one assignment h.val = x.val copies undefined), so the index is read
\* at the property name UNDEFINED, and .delete on a missing entry throws.
removeTail(H, I, h) ==
  LET balanced(bal) == OkI(bal.H, [I EXCEPT ![UNDEFINED] = @ \ {H[h].key}], bal.ret)
  IN IF UNDEFINED \notin DOMAIN I THEN RaiseI(H, I, "TypeError") ELSE balanced(balance(H, h))

RECURSIVE removeRecv(_, _, _, _)
removeRecv(H, I, node, removeKey) ==
  LET \* h.left = this.removeRecv(h.left, removeNode), then the tail
      goLeft(mv) ==
        LET linked(sub) ==
              IF sub.err # "none" THEN sub
              ELSE removeTail([sub.H EXCEPT ![mv.ret].left = sub.ret], sub.I, mv.ret)
        IN IF mv.err # "none" THEN RaiseI(mv.H, I, mv.err)
           ELSE linked(removeRecv(mv.H, I, mv.H[mv.ret].left, removeKey))
      \* if (!isRed(node.left) && !isRed(node.left.left)) h = this.moveRedLeft(h)
      left ==
        IF isRed(H, H[node].left) THEN goLeft(Ok(H, node))
        ELSE IF H[node].left = NULL THEN RaiseI(H, I, "TypeError")
        ELSE IF isRed(H, H[H[node].left].left) THEN goLeft(Ok(H, node))
        ELSE goLeft(moveRedLeft(H, node))
      \* the else branch, after if (this.isRed(h.left)) h = this.rotateRight(h)
      goRight(rot) ==
        LET linked(sub) ==
              IF sub.err # "none" THEN sub
              ELSE removeTail([sub.H EXCEPT ![rot.ret].right = sub.ret], sub.I, rot.ret)
            \* h.key = x.key; h.val = x.val; this.deleteMin is not a function
            successor(x) == RaiseI([rot.H EXCEPT ![rot.ret].key = rot.H[x].key], I, "TypeError")
        IN IF compareTo(removeKey, rot.H[rot.ret].key) = 0 /\ rot.H[rot.ret].right = NULL
           THEN OkI(rot.H, I, NULL)
           \* if (!isRed(h.right) && !isRed(h.right.left)) h = this.moveRedRight
           ELSE IF ~isRed(rot.H, rot.H[rot.ret].right) /\ rot.H[rot.ret].right = NULL
           THEN RaiseI(rot.H, I, "TypeError")
           ELSE IF ~isRed(rot.H, rot.H[rot.ret].right)
                   /\ ~isRed(rot.H, rot.H[rot.H[rot.ret].right].left)
           \* h is now the function moveRedRight, whose key is undefined:
           \* removeNode.compareTo(h) throws.
           THEN IF compareTo(removeKey, NoKey) = THROWN
                THEN RaiseI(rot.H, I, "TypeMismatch")
                ELSE RaiseI(rot.H, I, "TypeError")
           ELSE IF compareTo(removeKey, rot.H[rot.ret].key) = 0
           THEN successor(minAt(rot.H, rot.H[rot.ret].right))
           ELSE linked(removeRecv(rot.H, I, rot.H[rot.ret].right, removeKey))
      right == IF isRed(H, H[node].left) THEN goRight(rotateRight(H, node)) ELSE goRight(Ok(H, node))
  IN IF node = NULL THEN RaiseI(H, I, "TypeError")
     ELSE IF compareTo(removeKey, H[node].key) = THROWN THEN RaiseI(H, I, "TypeMismatch")
     ELSE IF compareTo(removeKey, H[node].key) < 0 THEN left
     ELSE right

\* What a call leaves: the heap, the index, the two roots, and its result.
Outcome(H, I, nRoot, sRoot, res) == [H |-> H, I |-> I, nRoot |-> nRoot, sRoot |-> sRoot, res |-> res]

\* removeNumber
removeNumber(H, I, nRoot, sRoot, key) ==
  LET \* this.numberRoot = ...; if (!this.isEmpty()) this.numberRoot.color = BLACK
      assign(r) ==
        IF r.err # "none" THEN Outcome(r.H, r.I, nRoot, sRoot, Throw(r.err))
        ELSE IF isEmpty(r.ret, sRoot) THEN Outcome(r.H, r.I, r.ret, sRoot, RBool(TRUE))
        ELSE IF r.ret = NULL THEN Outcome(r.H, r.I, r.ret, sRoot, Throw("TypeError"))
        ELSE Outcome([r.H EXCEPT ![r.ret].color = BLACK], r.I, r.ret, sRoot, RBool(TRUE))
      recolored ==
        IF ~isRed(H, H[nRoot].left) /\ ~isRed(H, H[nRoot].right)
        THEN [H EXCEPT ![nRoot].color = RED]
        ELSE H
  IN assign(removeRecv(recolored, I, nRoot, key))

\* removeString: the result of removeRecv goes to numberRoot.
removeString(H, I, nRoot, sRoot, key) ==
  LET \* this.numberRoot = ...; if (!this.isEmpty()) this.stringRoot.color = BLACK
      assign(r) ==
        IF r.err # "none" THEN Outcome(r.H, r.I, nRoot, sRoot, Throw(r.err))
        ELSE IF isEmpty(r.ret, sRoot) THEN Outcome(r.H, r.I, r.ret, sRoot, RBool(TRUE))
        ELSE Outcome([r.H EXCEPT ![sRoot].color = BLACK], r.I, r.ret, sRoot, RBool(TRUE))
      recolored ==
        IF ~isRed(H, H[sRoot].left) /\ ~isRed(H, H[sRoot].right)
        THEN [H EXCEPT ![sRoot].color = RED]
        ELSE H
  IN assign(removeRecv(recolored, I, sRoot, key))

\* remove(key)
remove(H, I, nRoot, sRoot, key) ==
  LET contained(has) ==
        IF has.err # "none" THEN Outcome(H, I, nRoot, sRoot, has)
        ELSE IF ~has.b THEN Outcome(H, I, nRoot, sRoot, RBool(FALSE))
        ELSE IF key.t = "number" THEN removeNumber(H, I, nRoot, sRoot, key)
        ELSE IF key.t = "string" THEN removeString(H, I, nRoot, sRoot, key)
        ELSE Outcome(H, I, nRoot, sRoot, RBool(FALSE))
  IN IF key.t = "undefined" THEN Outcome(H, I, nRoot, sRoot, Throw("Error"))
     ELSE contained(constains(H, I, nRoot, sRoot, key))

\* put whose new node is made without the test of the length of the key.
put_unchecked(H, I, nRoot, sRoot, key, value) ==
  LET number(r) ==
        IF r.err # "none" THEN Outcome(r.H, r.I, nRoot, sRoot, Throw(r.err))
        ELSE Outcome([r.H EXCEPT ![r.ret].color = BLACK], r.I, r.ret, sRoot, Res0)
      string(r) ==
        IF r.err # "none" THEN Outcome(r.H, r.I, nRoot, sRoot, Throw(r.err))
        ELSE Outcome([r.H EXCEPT ![r.ret].color = BLACK], r.I, nRoot, r.ret, Res0)
      insertNode(H0) ==
        IF key.t = "number" THEN number(putRecv(H0, I, nRoot, Len(H0)))
        ELSE IF key.t = "string" THEN string(putRecv(H0, I, sRoot, Len(H0)))
        ELSE Outcome(H0, I, nRoot, sRoot, Res0)
  IN insertNode(Append(H, Node(key, value, RED, 1)))

\* put(key, value): the constructor of the new node throws on a long string
\* before anything is written; the new node is the last of the heap.
put(H, I, nRoot, sRoot, key, value) ==
  LET number(r) ==
        IF r.err # "none" THEN Outcome(r.H, r.I, nRoot, sRoot, Throw(r.err))
        ELSE Outcome([r.H EXCEPT ![r.ret].color = BLACK], r.I, r.ret, sRoot, Res0)
      string(r) ==
        IF r.err # "none" THEN Outcome(r.H, r.I, nRoot, sRoot, Throw(r.err))
        ELSE Outcome([r.H EXCEPT ![r.ret].color = BLACK], r.I, nRoot, r.ret, Res0)
      insert(H0) ==
        IF key.t = "number" THEN number(putRecv(H0, I, nRoot, Len(H0)))
        ELSE IF key.t = "string" THEN string(putRecv(H0, I, sRoot, Len(H0)))
        ELSE Outcome(H0, I, nRoot, sRoot, Res0)
  IN IF key.t = "string" /\ Len(key.s) > STRING_ENCODING_LENGTH
     THEN Outcome(H, I, nRoot, sRoot, Throw("Error"))
     ELSE insert(Append(H, Node(key, value, RED, 1)))

\* insert(val): put({ value: val }) hands put an object as the key, and put
\* links the new node for a number or a string only.
insert(H, I, nRoot, sRoot, val) ==
  LET grown(lastSize, r) ==
        IF r.res.err # "none" THEN r
        ELSE [r EXCEPT !.res = RBool(size(r.H, r.nRoot, r.sRoot) > lastSize)]
  IN IF val = UNDEFINED THEN Outcome(H, I, nRoot, sRoot, Throw("Error"))
     ELSE grown(size(H, nRoot, sRoot), put(H, I, nRoot, sRoot, ObjKey, val))

\* entriesRangeRecv that pushes the node before it visits the left subtree.
RECURSIVE entriesRangeRecv_preorder(_, _, _, _)
entriesRangeRecv_preorder(H, node, min, max) ==
  LET visit(cmpLow, cmpHigh) ==
        (IF cmpLow <= 0 /\ cmpHigh >= 0 THEN <<(<<H[node].key, H[node].value>>)>> ELSE <<>>)
        \o (IF cmpLow < 0 THEN entriesRangeRecv_preorder(H, H[node].left, min, max) ELSE <<>>)
        \o (IF cmpHigh > 0 THEN entriesRangeRecv_preorder(H, H[node].right, min, max) ELSE <<>>)
  IN IF node = NULL THEN <<>>
     ELSE visit(compareTo(min, H[node].key), compareTo(max, H[node].key))

RECURSIVE entriesRangeRecv(_, _, _, _)
entriesRangeRecv(H, node, min, max) ==
  LET visit(cmpLow, cmpHigh) ==
        (IF cmpLow < 0 THEN entriesRangeRecv(H, H[node].left, min, max) ELSE <<>>)
        \o (IF cmpLow <= 0 /\ cmpHigh >= 0 THEN <<(<<H[node].key, H[node].value>>)>> ELSE <<>>)
        \o (IF cmpHigh > 0 THEN entriesRangeRecv(H, H[node].right, min, max) ELSE <<>>)
  IN IF node = NULL THEN <<>>
     ELSE visit(compareTo(min, H[node].key), compareTo(max, H[node].key))

RECURSIVE keysRangeRecv(_, _, _, _)
keysRangeRecv(H, node, min, max) ==
  LET visit(cmpLow, cmpHigh) ==
        (IF cmpLow < 0 THEN keysRangeRecv(H, H[node].left, min, max) ELSE <<>>)
        \o (IF cmpLow <= 0 /\ cmpHigh >= 0 THEN <<H[node].key>> ELSE <<>>)
        \o (IF cmpHigh > 0 THEN keysRangeRecv(H, H[node].right, min, max) ELSE <<>>)
  IN IF node = NULL THEN <<>>
     ELSE visit(compareTo(min, H[node].key), compareTo(max, H[node].key))

\* min that looks at stringRoot first, as max does.
min_stringsFirst(H, nRoot, sRoot) == IF sRoot = NULL THEN minAt(H, nRoot) ELSE minAt(H, sRoot)

\* min() and max() on a table that is not empty: the node.
min(H, nRoot, sRoot) == IF nRoot = NULL THEN minAt(H, sRoot) ELSE minAt(H, nRoot)
max(H, nRoot, sRoot) == IF sRoot = NULL THEN maxAt(H, nRoot) ELSE maxAt(H, sRoot)

\* entriesRange that returns stringKeys.concat(numberKeys).
entriesRange_stringsFirst(H, nRoot, sRoot, minKey, maxKey) ==
  LET numberKeys == IF minKey.t = "number"
                    THEN entriesRangeRecv(H, nRoot, minKey, H[maxAt(H, nRoot)].key)
                    ELSE <<>>
      stringKeys == IF maxKey.t = "string"
                    THEN entriesRangeRecv(H, sRoot, H[minAt(H, sRoot)].key, maxKey)
                    ELSE <<>>
  IN stringKeys \o numberKeys

\* entriesRange(min, max) on the keys of the two nodes given.
entriesRange(H, nRoot, sRoot, minKey, maxKey) ==
  LET numberKeys == IF minKey.t = "number"
                    THEN entriesRangeRecv(H, nRoot, minKey, H[maxAt(H, nRoot)].key)
                    ELSE <<>>
      stringKeys == IF maxKey.t = "string"
                    THEN entriesRangeRecv(H, sRoot, H[minAt(H, sRoot)].key, maxKey)
                    ELSE <<>>
  IN numberKeys \o stringKeys

keysRange(H, nRoot, sRoot, minKey, maxKey) ==
  LET numberKeys == IF minKey.t = "number"
                    THEN keysRangeRecv(H, nRoot, minKey, H[maxAt(H, nRoot)].key)
                    ELSE <<>>
      stringKeys == IF maxKey.t = "string"
                    THEN keysRangeRecv(H, sRoot, H[minAt(H, sRoot)].key, maxKey)
                    ELSE <<>>
  IN numberKeys \o stringKeys

entries(H, nRoot, sRoot) ==
  IF isEmpty(nRoot, sRoot) THEN <<>>
  ELSE entriesRange(H, nRoot, sRoot, H[min(H, nRoot, sRoot)].key, H[max(H, nRoot, sRoot)].key)

keys(H, nRoot, sRoot) ==
  IF isEmpty(nRoot, sRoot) THEN <<>>
  ELSE keysRange(H, nRoot, sRoot, H[min(H, nRoot, sRoot)].key, H[max(H, nRoot, sRoot)].key)

(***************************************************************************)
(* The object graph of a state: the nodes the two roots reach, numbered in *)
(* pre-order, numberRoot's first.                                          *)
(***************************************************************************)
RECURSIVE PreOrder(_, _)
PreOrder(H, n) ==
  IF n = NULL THEN <<>> ELSE <<n>> \o PreOrder(H, H[n].left) \o PreOrder(H, H[n].right)

Pos(order, n) == IF n = NULL THEN NULL ELSE CHOOSE i \in 1 .. Len(order) : order[i] = n

Canon(H, nRoot, sRoot) ==
  LET renumber(order) ==
        [H |-> [i \in 1 .. Len(order) |->
                  [H[order[i]] EXCEPT !.left = Pos(order, H[order[i]].left),
                                      !.right = Pos(order, H[order[i]].right)]],
         nRoot |-> Pos(order, nRoot),
         sRoot |-> Pos(order, sRoot)]
  IN renumber(PreOrder(H, nRoot) \o PreOrder(H, sRoot))

\* The keys held by the nodes of the two trees.
StoredKeys == {heap[i].key : i \in 1 .. Len(heap)}

(***************************************************************************)
(* The calls.  last is the call made last: its name, arguments and result, *)
(* what size() was before it and whether a node held its key before it.    *)
(* lastWrite is the value of the latest put of each key.  nops counts the  *)
(* calls.  A run is a sequence of puts and removes of keys, ended or not   *)
(* by one call of another kind: a reading call, which leaves the table as  *)
(* it is (UNCHANGED), an insert, or a put or remove of an argument that is *)
(* no key of the table (a string too long, null).                          *)
(***************************************************************************)
ReadOps == {"find", "entries", "keys", "min", "max", "keysRange", "entriesRange"}
Ended(call) == call.op \in ReadOps \cup {"insert"} \/ call.key \in {LongKey, NoKey}
Running == nops < MaxOps /\ (last.op = "new" \/ ~Ended(last))

Init ==
  /\ heap = <<>>
  /\ numberRoot = NULL
  /\ stringRoot = NULL
  /\ invertedIndex = [v \in {} |-> {}]
  /\ last = [op |-> "new", key |-> NoKey, hi |-> NoKey, value |-> UNDEFINED, res |-> Res0,
             sizeBefore |-> 0, stored |-> FALSE]
  /\ lastWrite = [k \in {} |-> 0]
  /\ nops = 0

Call(op, key, value, res) ==
  [op |-> op, key |-> key, hi |-> NoKey, value |-> value, res |-> res,
   sizeBefore |-> size(heap, numberRoot, stringRoot), stored |-> key \in StoredKeys]

\* The table after a call: what the call left, as an object graph.
Leaves(r, call) ==
  LET graph(c) == /\ heap' = c.H
                  /\ numberRoot' = c.nRoot
                  /\ stringRoot' = c.sRoot
  IN /\ graph(Canon(r.H, r.nRoot, r.sRoot))
     /\ invertedIndex' = r.I
     /\ last' = [call EXCEPT !.res = r.res]

PutCall(key, value) ==
  /\ Leaves(put(heap, invertedIndex, numberRoot, stringRoot, key, value),
            Call("put", key, value, Res0))
  /\ lastWrite' = IF last'.res.err # "none" THEN lastWrite
                  ELSE [k \in DOMAIN lastWrite \cup {key} |->
                          IF k = key THEN value ELSE lastWrite[k]]
  /\ nops' = nops + 1

Put(key, value) == Running /\ PutCall(key, value)

Remove(key) ==
  /\ Running
  /\ Leaves(remove(heap, invertedIndex, numberRoot, stringRoot, key),
            Call("remove", key, UNDEFINED, Res0))
  /\ nops' = nops + 1
  /\ UNCHANGED lastWrite

Insert(val) ==
  /\ Running
  /\ Leaves(insert(heap, invertedIndex, numberRoot, stringRoot, val),
            Call("insert", NoKey, val, Res0))
  /\ nops' = nops + 1
  /\ UNCHANGED lastWrite

FindKey(key) ==
  /\ Running
  /\ last' = Call("find", key, UNDEFINED,
                  find(heap, invertedIndex, numberRoot, stringRoot, key, UNDEFINED))
  /\ nops' = nops + 1
  /\ UNCHANGED <<heap, numberRoot, stringRoot, invertedIndex, lastWrite>>

\* find({ value }) that hands out the Set of the index and drops it from the index.
FindValue_consuming(value) ==
  /\ Running
  /\ last' = Call("find", NoKey, value,
                  find(heap, invertedIndex, numberRoot, stringRoot, NoKey, value))
  /\ nops' = nops + 1
  /\ invertedIndex' = [v \in DOMAIN invertedIndex \ {value} |-> invertedIndex[v]]
  /\ UNCHANGED <<heap, numberRoot, stringRoot, lastWrite>>

FindValue(value) ==
  /\ Running
  /\ last' = Call("find", NoKey, value,
                  find(heap, invertedIndex, numberRoot, stringRoot, NoKey, value))
  /\ nops' = nops + 1
  /\ UNCHANGED <<heap, numberRoot, stringRoot, invertedIndex, lastWrite>>

Entries ==
  /\ Running
  /\ last' = Call("entries", NoKey, UNDEFINED, REntries(entries(heap, numberRoot, stringRoot)))
  /\ nops' = nops + 1
  /\ UNCHANGED <<heap, numberRoot, stringRoot, invertedIndex, lastWrite>>

KeysCall ==
  /\ Running
  /\ last' = Call("keys", NoKey, UNDEFINED,
                  [Res0 EXCEPT !.kind = "list", !.seq = keys(heap, numberRoot, stringRoot)])
  /\ nops' = nops + 1
  /\ UNCHANGED <<heap, numberRoot, stringRoot, invertedIndex, lastWrite>>

FindKeyValue(key, value) ==
  /\ Running
  /\ last' = Call("find", key, value,
                  find(heap, invertedIndex, numberRoot, stringRoot, key, value))
  /\ nops' = nops + 1
  /\ UNCHANGED <<heap, numberRoot, stringRoot, invertedIndex, lastWrite>>

\* min(): throws on the empty table, else the node.
Min ==
  /\ Running
  /\ last' = Call("min", NoKey, UNDEFINED,
                  IF isEmpty(numberRoot, stringRoot) THEN Throw("Error")
                  ELSE RNode(heap[min(heap, numberRoot, stringRoot)]))
  /\ nops' = nops + 1
  /\ UNCHANGED <<heap, numberRoot, stringRoot, invertedIndex, lastWrite>>

Max ==
  /\ Running
  /\ last' = Call("max", NoKey, UNDEFINED,
                  IF isEmpty(numberRoot, stringRoot) THEN Throw("Error")
                  ELSE RNode(heap[max(heap, numberRoot, stringRoot)]))
  /\ nops' = nops + 1
  /\ UNCHANGED <<heap, numberRoot, stringRoot, invertedIndex, lastWrite>>

\* The bounds a caller hands to keysRange and entriesRange: nodes of the
\* table, given by their keys, or null, given as NoKey.
Bounds == StoredKeys \cup {NoKey}
\* The pairs of bounds tried: a null bound, or bounds in the order of the keys.
Ordered(lo, hi) ==
  \/ lo = NoKey
  \/ hi = NoKey
  \/ lo = hi
  \/ compareTo(lo, hi) = -1
  \/ lo.t = "number" /\ hi.t = "string"

\* keysRange(min, max): throws on a null bound.
KeysRange(lo, hi) ==
  /\ Running
  /\ Ordered(lo, hi)
  /\ last' = [Call("keysRange", lo, UNDEFINED,
                   IF lo = NoKey \/ hi = NoKey THEN Throw("Error")
                   ELSE RList(keysRange(heap, numberRoot, stringRoot, lo, hi)))
              EXCEPT !.hi = hi]
  /\ nops' = nops + 1
  /\ UNCHANGED <<heap, numberRoot, stringRoot, invertedIndex, lastWrite>>

EntriesRange(lo, hi) ==
  /\ Running
  /\ Ordered(lo, hi)
  /\ last' = [Call("entriesRange", lo, UNDEFINED,
                   IF lo = NoKey \/ hi = NoKey THEN Throw("Error")
                   ELSE REntries(entriesRange(heap, numberRoot, stringRoot, lo, hi)))
              EXCEPT !.hi = hi]
  /\ nops' = nops + 1
  /\ UNCHANGED <<heap, numberRoot, stringRoot, invertedIndex, lastWrite>>

Reads ==
  \/ \E k \in Keys : FindKey(k)
  \/ \E v \in Values : FindValue(v)
  \/ \E k \in Keys, v \in Values : FindKeyValue(k, v)
  \/ Entries
  \/ KeysCall
  \/ Min
  \/ Max
  \/ \E lo, hi \in Bounds : KeysRange(lo, hi)
  \/ \E lo, hi \in Bounds : EntriesRange(lo, hi)

Next ==
  \/ \E k \in Keys \cup {LongKey}, v \in Values : Put(k, v)
  \/ \E k \in Keys \cup {NoKey} : Remove(k)
  \/ \E v \in Values \cup {UNDEFINED} : Insert(v)
  \/ Reads

Spec == Init /\ [][Next]_vars

\* The runs that only put and read.
NextPut ==
  /\ nops < MaxPuts
  /\ \/ \E k \in Keys \cup {LongKey}, v \in Values : Put(k, v)
     \/ \E v \in Values \cup {UNDEFINED} : Insert(v)
     \/ Reads

SpecPut == Init /\ [][NextPut]_vars

\* The runs that build one tree of numeric keys, a new key at each put.
HeightKeys == {NumKey(n) : n \in 1 .. 9}

NextHeight ==
  /\ nops < MaxHeightPuts
  /\ \E k \in HeightKeys \ StoredKeys : PutCall(k, 1)

SpecHeight == Init /\ [][NextHeight]_vars

(***************************************************************************)
(* The table as its callers see it, and the shape of the two trees.        *)
(***************************************************************************)
Nodes == 1 .. Len(heap)
FindK(k) == find(heap, invertedIndex, numberRoot, stringRoot, k, UNDEFINED)
FindV(v) == find(heap, invertedIndex, numberRoot, stringRoot, NoKey, v)
TableSize == size(heap, numberRoot, stringRoot)
EntriesNow == entries(heap, numberRoot, stringRoot)
KeysNow == keys(heap, numberRoot, stringRoot)
Written == DOMAIN lastWrite

\* The surrogate of a string key as the specification defines it:
\* (code(s[0]) - 64) * 58^8 + the sum of (code - 64) over the other
\* characters, as the pair of the two terms.
RECURSIVE RestSum(_, _)
RestSum(s, i) == IF i > Len(s) THEN 0 ELSE (s[i] - 64) + RestSum(s, i + 1)
Surrogate(k) == <<k.s[1] - 64, RestSum(k.s, 2)>>
\* k1 comes before k2: numbers by value, strings by surrogate, a number
\* before a string.
Before(k1, k2) ==
  IF k1.t = "number" /\ k2.t = "number" THEN k1.n < k2.n
  ELSE IF k1.t = "string" /\ k2.t = "string"
  THEN \/ Surrogate(k1)[1] < Surrogate(k2)[1]
       \/ Surrogate(k1)[1] = Surrogate(k2)[1] /\ Surrogate(k1)[2] < Surrogate(k2)[2]
  ELSE k1.t = "number" /\ k2.t = "string"

\* The numbers of black links on the paths from the link into n to an absent child.
RECURSIVE BlackLinks(_)
BlackLinks(n) ==
  IF n = NULL THEN {0}
  ELSE {c + (IF heap[n].color = BLACK THEN 1 ELSE 0) :
          c \in BlackLinks(heap[n].left) \cup BlackLinks(heap[n].right)}

(***************************************************************************)
(* C1.  Round trip: after any sequence of put calls, find({key: k})        *)
(* returns, without raising, the value of the last put of k, for every key *)
(* k that was put.                                                         *)
(***************************************************************************)
C1_RoundTrip == \A k \in Written : FindK(k) = RValue(lastWrite[k])

(***************************************************************************)
(* C2.  Reverse index consistency: for every value v, find({value: v})     *)
(* returns exactly the keys whose stored value is v.  (Stated of the       *)
(* values for which find returns: it throws on the value 0.)               *)
(***************************************************************************)
C2_ReverseIndex ==
  \A v \in Values :
    FindV(v).err = "none" =>
      FindV(v) = RKeys({heap[i].key : i \in {j \in Nodes : heap[j].value = v}})

(***************************************************************************)
(* C3.  Remove of a present key: remove(k) of a stored key returns true    *)
(* without raising; afterwards find({key: k}) reports not found and size() *)
(* is one less than before.                                                *)
(***************************************************************************)
C3_RemovePresent ==
  (last.op = "remove" /\ last.stored) =>
    /\ last.res = RBool(TRUE)
    /\ FindK(last.key) = RNull
    /\ TableSize = last.sizeBefore - 1

(***************************************************************************)
(* C4.  No red-red: no red node of either tree has a red child.            *)
(***************************************************************************)
C4_NoRedRed ==
  \A i \in Nodes :
    heap[i].color = RED => ~isRed(heap, heap[i].left) /\ ~isRed(heap, heap[i].right)

(***************************************************************************)
(* C5.  Left-leaning: no node of either tree has a red right child.        *)
(***************************************************************************)
C5_LeftLeaning == \A i \in Nodes : ~isRed(heap, heap[i].right)

(***************************************************************************)
(* C6.  Perfect black balance: in each tree every path from the root to an *)
(* absent child passes through the same number of black links.             *)
(***************************************************************************)
C6_BlackBalance ==
  /\ Cardinality(BlackLinks(numberRoot)) = 1
  /\ Cardinality(BlackLinks(stringRoot)) = 1

(***************************************************************************)
(* C7.  Size invariant: every node's size is 1 + size(left) + size(right), *)
(* and size() is the number of stored entries.                             *)
(***************************************************************************)
C7_SizeInvariant ==
  /\ \A i \in Nodes :
       heap[i].size = 1 + sizeAt(heap, heap[i].left) + sizeAt(heap, heap[i].right)
  /\ TableSize = Cardinality(Nodes)

(***************************************************************************)
(* C8.  Numeric ordering: after puts of numeric keys only, entries() lists *)
(* every key that was put exactly once, with the value of its last put, in *)
(* strictly increasing numeric order.                                      *)
(***************************************************************************)
C8_NumericOrdering ==
  LET listed(q) ==
        /\ Len(q) = Cardinality(Written)
        /\ \A k \in Written : \E i \in 1 .. Len(q) : q[i] = <<k, lastWrite[k]>>
        /\ \A i, j \in 1 .. Len(q) : i < j => q[i][1].n < q[j][1].n
  IN (\A k \in Written : k.t = "number") => listed(EntriesNow)

C8_Witness ==
  /\ last.op = "entries"
  /\ Len(last.res.seq) = 3
  /\ \A k \in Written : k.t = "number"
  /\ heap[numberRoot].key # last.res.seq[1][1]
  /\ \E i \in 1 .. 3 : last.res.seq[i][1].n < 0

(***************************************************************************)
(* C9.  String ordering: after puts of string keys whose surrogates are    *)
(* pairwise distinct, entries() lists every key that was put exactly once, *)
(* in strictly increasing surrogate order.                                 *)
(***************************************************************************)
DistinctSurrogates ==
  \A k1, k2 \in Written :
    /\ k1.t = "string"
    /\ k1 # k2 => Surrogate(k1) # Surrogate(k2)

C9_StringOrdering ==
  LET listed(q) ==
        /\ Len(q) = Cardinality(Written)
        /\ \A k \in Written : \E i \in 1 .. Len(q) : q[i][1] = k
        /\ \A i, j \in 1 .. Len(q) : i < j => Before(q[i][1], q[j][1])
  IN DistinctSurrogates => listed(EntriesNow)

C9_Witness ==
  /\ last.op = "entries"
  /\ DistinctSurrogates
  /\ Len(last.res.seq) = 3
  /\ Len(last.res.seq[2][1].s) = 3

(***************************************************************************)
(* C10.  Domain ordering: after any puts of numeric and string keys,       *)
(* entries() and keys() list every stored item exactly once, the numeric   *)
(* keys in numeric order first and then the string keys in surrogate       *)
(* order; every numeric key that was put is listed, and every string key   *)
(* that was put is listed itself or by the stored key of its surrogate.    *)
(***************************************************************************)
Listed(k, q) ==
  \E i \in 1 .. Len(q) :
    IF k.t = "number" THEN q[i] = k ELSE q[i].t = "string" /\ Surrogate(q[i]) = Surrogate(k)

C10_DomainOrdering ==
  LET listed(ks, es) ==
        /\ Len(ks) = Len(es)
        /\ \A i \in 1 .. Len(es) : es[i][1] = ks[i]
        /\ \A i, j \in 1 .. Len(ks) : i < j => Before(ks[i], ks[j])
        /\ \A k \in Written : Listed(k, ks)
        /\ \A i \in 1 .. Len(ks) : \E k \in Written : Listed(k, <<ks[i]>>)
        /\ Len(ks) = Cardinality(Nodes)
        /\ \A i \in 1 .. Len(es) : \E n \in Nodes : es[i] = <<heap[n].key, heap[n].value>>
  IN listed(KeysNow, EntriesNow)

C10_Witness ==
  /\ last.op = "entries"
  /\ Len(last.res.seq) = 3
  /\ last.res.seq[1][1].t = "number"
  /\ last.res.seq[2][1].t = "string"
  /\ heap[stringRoot].left # NULL

(***************************************************************************)
(* What the claims about one call compare: the table before the call (the  *)
(* unprimed state) and after it (the primed one).                          *)
(***************************************************************************)
\* A node holds k, as the tree compares keys (strings by their surrogates).
Holds(k) == \E i \in Nodes : heap[i].key.t = k.t /\ compareTo(k, heap[i].key) = 0
\* The stored key that k selects.
KeyAt(k) == heap[CHOOSE i \in Nodes : heap[i].key.t = k.t /\ compareTo(k, heap[i].key) = 0].key
\* The entries of the table: the key and the value of every node.
Pairs == {<<heap[i].key, heap[i].value>> : i \in Nodes}
\* The call just made is a put, or a remove, of a key of the table's domains.
PutOfKey == last'.op = "put" /\ last'.key \in Keys
RemoveOfKey == last'.op = "remove" /\ last'.key \in Keys

(***************************************************************************)
(* C11.  Update versus create: put(k, v) on a stored key leaves size() and *)
(* the set of stored keys unchanged and changes only the value stored at   *)
(* k; put(k, v) on a key not stored increases size() by exactly one and    *)
(* adds exactly k.  (A key is stored when a node holds it as the tree      *)
(* compares keys.)                                                         *)
(***************************************************************************)
C11_UpdateOrCreate ==
  [][PutOfKey =>
       IF Holds(last'.key)
       THEN /\ TableSize' = TableSize
            /\ StoredKeys' = StoredKeys
            /\ Pairs' = {p \in Pairs : p[1] # KeyAt(last'.key)}
                           \cup {<<KeyAt(last'.key), last'.value>>}
       ELSE /\ TableSize' = TableSize + 1
            /\ StoredKeys' = StoredKeys \cup {last'.key}
            /\ Pairs' = Pairs \cup {<<last'.key, last'.value>>}]_vars

(***************************************************************************)
(* C12.  Key-and-value search: for every key k and value v, the value 0    *)
(* too, find({key: k, value: v}) returns the record {key: k, value: K},    *)
(* K the keys the reverse index holds for v, if k is stored with the value *)
(* v, and null if k is absent or stored with another value.                *)
(***************************************************************************)
IndexOf(v) == IF v \in DOMAIN invertedIndex THEN invertedIndex[v] ELSE {}

C12_KeyAndValue ==
  (last.op = "find" /\ last.key \in Keys /\ last.value \in Values) =>
    last.res = IF Holds(last.key) /\ <<KeyAt(last.key), last.value>> \in Pairs
               THEN RRecord(KeyAt(last.key), IndexOf(last.value))
               ELSE RNull

(***************************************************************************)
(* C13.  Misses are not errors: for every numeric key (0 too) or string    *)
(* key k that is not stored, find({key: k}) returns null and remove(k)     *)
(* returns false, neither raises, and both leave the trees and the reverse *)
(* index unchanged.                                                        *)
(***************************************************************************)
FindOfKey == last'.op = "find" /\ last'.key \in Keys /\ last'.value = UNDEFINED
TableUnchanged == UNCHANGED <<heap, numberRoot, stringRoot, invertedIndex>>

C13_Misses ==
  [][/\ (FindOfKey /\ ~Holds(last'.key)) => (last'.res = RNull /\ TableUnchanged)
     /\ (RemoveOfKey /\ ~Holds(last'.key)) => (last'.res = RBool(FALSE) /\ TableUnchanged)]_vars

(***************************************************************************)
(* C14.  Key-less insert: insert(value) with a value that is not null      *)
(* stores the value under a key made for it: size() increases by one,      *)
(* insert returns true, and find({value}) then returns a key set that is   *)
(* not empty.                                                              *)
(***************************************************************************)
C14_KeylessInsert ==
  [][\A v \in Values :
       (last'.op = "insert" /\ last'.value = v) =>
         /\ last'.res = RBool(TRUE)
         /\ TableSize' = TableSize + 1
         /\ (FindV(v).kind = "keys")'
         /\ (FindV(v).keys # {})']_vars

(***************************************************************************)
(* C15.  Bounded range query: for stored bounds lo <= hi of one domain,    *)
(* keysRange(lo, hi) and entriesRange(lo, hi) return exactly the stored    *)
(* keys (entries) k with lo <= k <= hi, in increasing order, and nothing   *)
(* outside [lo, hi].                                                       *)
(***************************************************************************)
\* The keys of a returned list of keys or of entries.
KeysOf(res) ==
  IF res.kind = "entries" THEN [i \in 1 .. Len(res.seq) |-> res.seq[i][1]] ELSE res.seq
Within(lo, hi) == {k \in StoredKeys : k.t = lo.t /\ ~Before(k, lo) /\ ~Before(hi, k)}
RangeCall ==
  /\ last.op \in {"keysRange", "entriesRange"}
  /\ last.key \in StoredKeys
  /\ last.hi \in StoredKeys
  /\ last.key.t = last.hi.t
  /\ ~Before(last.hi, last.key)

C15_RangeQuery ==
  RangeCall =>
    /\ last.res.err = "none"
    /\ {KeysOf(last.res)[i] : i \in 1 .. Len(last.res.seq)} = Within(last.key, last.hi)
    /\ \A i, j \in 1 .. Len(last.res.seq) :
         i < j => Before(KeysOf(last.res)[i], KeysOf(last.res)[j])
    /\ last.op = "entriesRange" => \A i \in 1 .. Len(last.res.seq) : last.res.seq[i] \in Pairs

(***************************************************************************)
(* C16.  Root is always BLACK: after every put or remove call ends,        *)
(* whether it returns or raises, numberRoot and stringRoot are each absent *)
(* or coloured BLACK.                                                      *)
(***************************************************************************)
C16_RootBlack ==
  last.op \in {"put", "remove"} =>
    /\ numberRoot = NULL \/ heap[numberRoot].color = BLACK
    /\ stringRoot = NULL \/ heap[stringRoot].color = BLACK

(***************************************************************************)
(* C17.  Domain independence: a put or remove call on a key of one domain  *)
(* leaves the other domain's tree unchanged: same stored keys, values,     *)
(* shape and root; in particular remove of a string key changes only       *)
(* stringRoot and never numberRoot.                                        *)
(***************************************************************************)
\* The tree below n: its shape, and the fields of its nodes.
RECURSIVE TreeAt(_)
TreeAt(n) ==
  IF n = NULL THEN <<>>
  ELSE <<TreeAt(heap[n].left),
         <<heap[n].key, heap[n].value, heap[n].color, heap[n].size>>,
         TreeAt(heap[n].right)>>

C17_DomainIndependence ==
  [][/\ ((PutOfKey \/ RemoveOfKey) /\ last'.key.t = "string")
          => TreeAt(numberRoot)' = TreeAt(numberRoot)
     /\ ((PutOfKey \/ RemoveOfKey) /\ last'.key.t = "number")
          => TreeAt(stringRoot)' = TreeAt(stringRoot)]_vars

(***************************************************************************)
(* C18.  Logarithmic height: after any sequence of put calls storing       *)
(* N >= 1 keys in one tree, the number h of links on the longest path from *)
(* the root to a leaf satisfies h <= 2 lg N, that is 2^h <= N^2.           *)
(***************************************************************************)
RECURSIVE Links(_)
Links(n) ==
  IF n = NULL THEN -1
  ELSE 1 + (IF Links(heap[n].left) > Links(heap[n].right)
            THEN Links(heap[n].left) ELSE Links(heap[n].right))

C18_LogHeight ==
  numberRoot # NULL =>
    2 ^ Links(numberRoot) <= Cardinality(StoredKeys) * Cardinality(StoredKeys)

(***************************************************************************)
(* C19.  Overall min/max: on a table that is not empty, min() returns the  *)
(* node with the smallest numeric key if a numeric key is stored and       *)
(* otherwise the node with the smallest string key; max() returns the node *)
(* with the largest string key if a string key is stored and otherwise the *)
(* node with the largest numeric key.                                      *)
(***************************************************************************)
MinDomain == IF \E k \in StoredKeys : k.t = "number" THEN "number" ELSE "string"
MaxDomain == IF \E k \in StoredKeys : k.t = "string" THEN "string" ELSE "number"
ReturnsNode == /\ last.res.err = "none"
               /\ last.res.kind = "node"
               /\ <<last.res.key, last.res.val>> \in Pairs

C19_MinMax ==
  /\ (last.op = "min" /\ Nodes # {}) =>
       /\ ReturnsNode
       /\ last.res.key.t = MinDomain
       /\ \A k \in StoredKeys : k.t = MinDomain => ~Before(k, last.res.key)
  /\ (last.op = "max" /\ Nodes # {}) =>
       /\ ReturnsNode
       /\ last.res.key.t = MaxDomain
       /\ \A k \in StoredKeys : k.t = MaxDomain => ~Before(last.res.key, k)

\* min() of a table of two numeric and two string keys, the smallest key of
\* each tree below its root.
C19_Witness ==
  /\ last.op = "min"
  /\ Cardinality(StoredKeys) = 4
  /\ numberRoot # NULL
  /\ stringRoot # NULL
  /\ heap[numberRoot].left # NULL
  /\ heap[stringRoot].left # NULL
  /\ last.res.key = heap[heap[numberRoot].left].key

(***************************************************************************)
(* C20.  Input-contract violations are rejected without mutation: put with *)
(* a string key longer than 8 characters, remove(null), min() and max() on *)
(* an empty table, and keysRange and entriesRange with a null bound each   *)
(* raise an error and leave both trees and the reverse index exactly as    *)
(* they were before the call.                                              *)
(***************************************************************************)
Rejected ==
  \/ last'.op = "put" /\ last'.key = LongKey
  \/ last'.op = "remove" /\ last'.key = NoKey
  \/ last'.op \in {"min", "max"} /\ Nodes = {}
  \/ last'.op \in {"keysRange", "entriesRange"} /\ (last'.key = NoKey \/ last'.hi = NoKey)

C20_Rejections == [][Rejected => (last'.res.err # "none" /\ TableUnchanged)]_vars

\* A put of a key of nine characters on a table of three keys.
C20_Witness ==
  /\ last.op = "put"
  /\ last.key = LongKey
  /\ last.res.err = "Error"
  /\ Cardinality(StoredKeys) = 3
  /\ stringRoot # NULL

(***************************************************************************)
(* C21.  Insertion fix-up matches its specification: for every node passed *)
(* to it during put, fixRightLining returns the same subtree (shape,       *)
(* colours, root) as the reference procedure that applies the three steps  *)
(* in sequence to the current, possibly already rotated, subtree root h:   *)
(* if h.right is red and h.left is not, h = rotateLeft(h); if h.left and   *)
(* h.left.left are red, h = rotateRight(h); if h.left and h.right are red, *)
(* flipColors(h).                                                          *)
(***************************************************************************)
\* The reference procedure of the claim.
FixUpReference(H, node) ==
  LET first ==
        IF isRed(H, H[node].right) /\ ~isRed(H, H[node].left)
        THEN rotateLeft(H, node)
        ELSE Ok(H, node)
      second(s) ==
        IF isRed(s.H, s.H[s.ret].left) /\ isRed(s.H, s.H[s.H[s.ret].left].left)
        THEN rotateRight(s.H, s.ret)
        ELSE s
      third(s) ==
        IF isRed(s.H, s.H[s.ret].left) /\ isRed(s.H, s.H[s.ret].right)
        THEN Ok(flipColors(s.H, s.ret).H, s.ret)
        ELSE s
  IN third(second(first))

\* The arguments of the calls of fixRightLining that putRecv(node, newNode)
\* makes: the heap at the call, and the node.
RECURSIVE FixArgs(_, _, _, _)
FixArgs(H, I, node, newNode) ==
  LET below(child) == FixArgs(H, I, child, newNode)
      linked(sub, heapAtCall) ==
        IF sub.err # "none" THEN {} ELSE {<<heapAtCall, node>>}
      left(sub) == linked(sub, [sub.H EXCEPT ![node].left = sub.ret])
      right(sub) == linked(sub, [sub.H EXCEPT ![node].right = sub.ret])
      at(cmp) ==
        IF cmp = THROWN THEN {}
        ELSE IF cmp < 0
        THEN below(H[node].left) \cup left(putRecv(H, I, H[node].left, newNode))
        ELSE IF cmp > 0
        THEN below(H[node].right) \cup right(putRecv(H, I, H[node].right, newNode))
        ELSE {<<[H EXCEPT ![node].value = H[newNode].value], node>>}
  IN IF node = NULL THEN {} ELSE at(compareTo(H[newNode].key, H[node].key))

\* The calls of fixRightLining made by the put that is the step.
FixArgsOfPut(H0) ==
  FixArgs(H0, invertedIndex, IF last'.key.t = "number" THEN numberRoot ELSE stringRoot, Len(H0))

C21_FixUpRefinement ==
  [][PutOfKey =>
       \A a \in FixArgsOfPut(Append(heap, Node(last'.key, last'.value, RED, 1))) :
         fixRightLining(a[1], a[2]) = FixUpReference(a[1], a[2])]_vars

(***************************************************************************)
(* C22.  No type mismatch under correct routing: for every sequence of     *)
(* put, find and remove calls whose keys are numbers or strings of at most *)
(* 8 characters, no call raises the inconsistent-comparison error:         *)
(* compareTo is only called on two nodes whose keys are both numbers or    *)
(* both strings.                                                           *)
(***************************************************************************)
C22_NoTypeMismatch ==
  (last.op \in {"put", "find", "remove"} /\ last.key \in Keys \cup {NoKey})
    => last.res.err # "TypeMismatch"

(***************************************************************************)
(* The reading calls that no other claim needed: constains, size, height   *)
(* and toString.  height() is height(null): on a table that is not empty   *)
(* it calls height on the children of the roots, and height of an absent   *)
(* child is height(null) again, a recursion that ends in the RangeError of *)
(* a full call stack; height of a child that is there is its size field.   *)
(***************************************************************************)
height(H, nRoot, sRoot) ==
  LET leafy(root) == H[root].left = NULL \/ H[root].right = NULL
      larger(a, b) == IF a >= b THEN a ELSE b
      below(root) == larger(H[H[root].left].size, H[H[root].right].size)
  IN IF isEmpty(nRoot, sRoot) THEN RValue(0)
     ELSE IF nRoot = NULL
     THEN IF leafy(sRoot) THEN Throw("RangeError") ELSE RValue(1 + below(sRoot))
     ELSE IF sRoot = NULL
     THEN IF leafy(nRoot) THEN Throw("RangeError") ELSE RValue(1 + below(nRoot))
     ELSE IF leafy(sRoot) \/ leafy(nRoot) THEN Throw("RangeError")
     ELSE RValue(1 + below(sRoot) + below(nRoot))

\* JSON.stringify of an array of [key, value] pairs, as the sequence of its
\* tokens: brackets, commas, numbers bare and strings in quotes.
Token(c) == [tok |-> c, n |-> 0, s |-> <<>>]
KeyTokens(k) ==
  IF k.t = "number" THEN <<[tok |-> "number", n |-> k.n, s |-> <<>>]>>
  ELSE <<Token("quote"), [tok |-> "chars", n |-> 0, s |-> k.s], Token("quote")>>
RECURSIVE PairTokens(_, _)
PairTokens(q, i) ==
  IF i > Len(q) THEN <<>>
  ELSE (IF i > 1 THEN <<Token(",")>> ELSE <<>>)
       \o <<Token("[")>> \o KeyTokens(q[i][1])
       \o <<Token(","), [tok |-> "number", n |-> q[i][2], s |-> <<>>], Token("]")>>
       \o PairTokens(q, i + 1)
stringify(q) == <<Token("[")>> \o PairTokens(q, 1) \o <<Token("]")>>

Constains(k) ==
  /\ Running
  /\ last' = Call("constains", k, UNDEFINED,
                  constains(heap, invertedIndex, numberRoot, stringRoot, k))
  /\ nops' = nops + 1
  /\ UNCHANGED <<heap, numberRoot, stringRoot, invertedIndex, lastWrite>>

Size ==
  /\ Running
  /\ last' = Call("size", NoKey, UNDEFINED, RValue(size(heap, numberRoot, stringRoot)))
  /\ nops' = nops + 1
  /\ UNCHANGED <<heap, numberRoot, stringRoot, invertedIndex, lastWrite>>

Height ==
  /\ Running
  /\ last' = Call("height", NoKey, UNDEFINED, height(heap, numberRoot, stringRoot))
  /\ nops' = nops + 1
  /\ UNCHANGED <<heap, numberRoot, stringRoot, invertedIndex, lastWrite>>

ToStringCall ==
  /\ Running
  /\ last' = Call("toString", NoKey, UNDEFINED,
                  [Res0 EXCEPT !.kind = "string",
                               !.seq = stringify(entries(heap, numberRoot, stringRoot))])
  /\ nops' = nops + 1
  /\ UNCHANGED <<heap, numberRoot, stringRoot, invertedIndex, lastWrite>>

\* The runs of puts and removes of keys that one reading call ends.
AllReadOps == ReadOps \cup {"constains", "size", "height", "toString"}

NextRead ==
  /\ last.op \notin AllReadOps
  /\ \/ \E k \in Keys, v \in Values : Put(k, v)
     \/ \E k \in Keys : Remove(k)
     \/ Reads
     \/ \E k \in Keys : Constains(k)
     \/ Size
     \/ Height
     \/ ToStringCall

SpecRead == Init /\ [][NextRead]_vars

Tie(s1, s2) == s1.t = "string" /\ s2.t = "string" /\ s1 # s2 /\ Surrogate(s1) = Surrogate(s2)

C24_TiesCollapse ==
  [][\A s1, s2 \in StrKeys, v \in Values :
       (/\ last'.op = "put" /\ last'.key = s2 /\ last'.value = v
        /\ s1 \in StoredKeys
        /\ Tie(s1, s2))
       => /\ last'.res.err = "none"
          /\ TableSize' = TableSize
          /\ Len(heap') = Len(heap)
          /\ StoredKeys' = StoredKeys
          /\ (<<s1, v>> \in Pairs)'
          /\ (FindK(s1) = RValue(v))'
          /\ (FindK(s2) = RValue(v))']_vars

(***************************************************************************)
(* C25.  Remove touches only its target: in every state the table can      *)
(* reach, a call remove(k), whether it returns true, returns false or      *)
(* raises, leaves every entry whose key differs from k stored with the     *)
(* same value: find({key: j}) gives after the call what it gave before it, *)
(* for every key j other than k, of either domain.                         *)
(***************************************************************************)
C25_RemoveOnlyTarget ==
  [][\A k, j \in Keys :
       (last'.op = "remove" /\ last'.key = k /\ j # k) => FindK(j)' = FindK(j)]_vars

====
